---------------------------- MODULE Spec2Model ----------------------------
(***************************************************************************)
(* Model of halloy's chat-markup transcoder,                               *)
(*   data/src/message/formatting/encode.rs                                 *)
(* A string is a sequence of characters; a character is a one-character    *)
(* TLA+ string.  The five formatting control bytes are written "x02",      *)
(* "x1D", "x11", "x03" and "x0F", and the grave accent (which a TLA+       *)
(* string cannot hold) is written "grave".                                 *)
(*                                                                         *)
(* A nom parser applied to an input i is modelled by its result: a record  *)
(* [ok, n, val] where ok says whether it succeeded, n is the number of     *)
(* characters it consumed and val is its output.                           *)
(***************************************************************************)
EXTENDS Integers, Sequences, FiniteSets, TLC

(***************************************************************************)
(* Bounds of the model.                                                    *)
(***************************************************************************)
\* longest input of the exhaustive family
MaxLen == 4
\* longest inner run x of the structured families (start x end)
MaxRun == 2

(***************************************************************************)
(* Modifier and Color: formatting.rs (imported by encode.rs:15).           *)
(***************************************************************************)
Modifier_Bold == "x02"
Modifier_Italics == "x1D"
Modifier_Monospace == "x11"
Modifier_Color == "x03"
Modifier_Reset == "x0F"
ModifierBytes ==
    {Modifier_Bold, Modifier_Italics, Modifier_Monospace, Modifier_Color,
     Modifier_Reset}

\* the palette in code order: Palette[k + 1] is the colour with code k
Palette ==
    <<"white", "black", "blue", "green", "red", "brown", "magenta", "orange",
      "yellow", "lightgreen", "cyan", "lightcyan", "lightblue", "pink", "grey",
      "lightgrey">>
NoColor == -1

Digits == <<"0", "1", "2", "3", "4", "5", "6", "7", "8", "9">>
IsDigit(c) == \E d \in 1..10 : Digits[d] = c
DigitVal(c) == (CHOOSE d \in 1..10 : Digits[d] = c) - 1

\* Color::code: the colour of a numeric code, if the palette has one
Color_code(n) == IF n \in 0..(Len(Palette) - 1) THEN n ELSE NoColor
\* Color::digit: the digit representation of a colour
Color_digit(c) ==
    IF c < 10 THEN <<Digits[c + 1]>>
    ELSE <<Digits[(c \div 10) + 1], Digits[(c % 10) + 1]>>

(***************************************************************************)
(* nom combinators.                                                        *)
(***************************************************************************)
Fail == [ok |-> FALSE, n |-> 0, val |-> <<>>]
Ok(n, v) == [ok |-> TRUE, n |-> n, val |-> v]

Drop(i, n) == SubSeq(i, n + 1, Len(i))
Take(i, n) == SubSeq(i, 1, n)

\* tag(t): the input starts with t
tag(t, i) ==
    IF Len(t) <= Len(i) /\ Take(i, Len(t)) = t THEN Ok(Len(t), t) ELSE Fail
\* none_of(set): one character that is not in set
none_of(set, i) ==
    IF i # <<>> /\ Head(i) \notin set THEN Ok(1, Head(i)) ELSE Fail
\* a rule that refuses the star stands where anychar should
anychar_not_star(i) == none_of({"*"}, i)
\* anychar: one character
anychar(i) == IF i # <<>> THEN Ok(1, Head(i)) ELSE Fail
\* value(v, r): r's success with output v
value(v, r) == IF r.ok THEN Ok(r.n, v) ELSE Fail
\* alt(rs): the first alternative that succeeds
alt(rs) ==
    IF \E k \in 1..Len(rs) : rs[k].ok
    THEN rs[CHOOSE k \in 1..Len(rs) : rs[k].ok /\ \A j \in 1..(k - 1) : ~rs[j].ok]
    ELSE Fail
\* recognize(r): r's success with the consumed slice of the input as output
recognize(r, i) == IF r.ok THEN Ok(r.n, Take(i, r.n)) ELSE Fail

\* skip(skip, inner) = map_opt(cond(!skip, inner), identity)
skip(skp, inner) == IF skp THEN Fail ELSE inner

(***************************************************************************)
(* The grammar.                                                            *)
(***************************************************************************)
Backslash == "\\"
Backtick == "grave"

escaped(markdown_only, i) ==
    alt(<<value("*", tag(<<Backslash, "*">>, i)),
          value("_", tag(<<Backslash, "_">>, i)),
          value(Backtick, tag(<<Backslash, Backtick>>, i)),
          value("|", tag(<<Backslash, "|">>, i)),
          none_of({"*", "_", Backtick, "|"}, i),
          skip(markdown_only,
               alt(<<value("$", tag(<<Backslash, "$">>, i)),
                     value("$", tag(<<"$", "$">>, i)),
                     none_of({"$"}, i)>>))>>)

\* many1(escaped(markdown_only)): the de-escaped characters of the longest run
RECURSIVE many0_escaped(_, _)
many0_escaped(markdown_only, i) ==
    LET r == escaped(markdown_only, i)
    IN  IF r.ok /\ r.n > 0
        THEN LET t == many0_escaped(markdown_only, Drop(i, r.n))
             IN  Ok(r.n + t.n, <<r.val>> \o t.val)
        ELSE Ok(0, <<>>)
\* many1 mistaken for many0: an empty run is accepted
many1_escaped_zero(markdown_only, i) == many0_escaped(markdown_only, i)

many1_escaped(markdown_only, i) ==
    LET r == many0_escaped(markdown_only, i)
    IN  IF r.n > 0 THEN r ELSE Fail

plain(markdown_only, i) == recognize(many1_escaped(markdown_only, i), i)

\* the length of the closing delimiter is left out of what was consumed
closing_short(a, p, e) ==
    IF e.ok THEN Ok(a.n + p.n, p.val) ELSE Fail
\* delimited: the closing tag after an opening a and a content p
closing(a, p, e) ==
    IF e.ok THEN Ok(a.n + p.n + e.n, p.val) ELSE Fail
\* the closing delimiter is not required
content_unclosed(a, p, end, i) ==
    IF p.ok THEN Ok(a.n + p.n, p.val) ELSE Fail
\* delimited: the content after an opening a, then the closing tag
content(a, p, end, i) ==
    IF p.ok THEN closing(a, p, tag(end, Drop(i, a.n + p.n))) ELSE Fail
\* delimited: the opening tag, then the rest
opening(a, end, markdown_only, i) ==
    IF a.ok THEN content(a, plain(markdown_only, Drop(i, a.n)), end, i)
    ELSE Fail

\* delimited(tag(start), plain(markdown_only), tag(end))
between(start, end, markdown_only, i) ==
    opening(tag(start, i), end, markdown_only, i)

\* map(r, Markdown::kind)
Markdown(kind, r) ==
    IF r.ok
    THEN Ok(r.n, [kind |-> kind, text |-> r.val, fg |-> NoColor, bg |-> NoColor])
    ELSE Fail

markdown(markdown_only, i) ==
    LET italic == alt(<<between(<<"_">>, <<"_">>, markdown_only, i),
                        between(<<"*">>, <<"*">>, markdown_only, i)>>)
        bold == alt(<<between(<<"_", "_">>, <<"_", "_">>, markdown_only, i),
                      between(<<"*", "*">>, <<"*", "*">>, markdown_only, i)>>)
        italic_bold ==
            alt(<<between(<<"_", "_", "_">>, <<"_", "_", "_">>, markdown_only, i),
                  between(<<"*", "*", "*">>, <<"*", "*", "*">>, markdown_only, i),
                  between(<<"*", "*", "_">>, <<"_", "*", "*">>, markdown_only, i),
                  between(<<"_", "_", "*">>, <<"*", "_", "_">>, markdown_only, i)>>)
        code == between(<<Backtick>>, <<Backtick>>, markdown_only, i)
        spoiler == between(<<"|", "|">>, <<"|", "|">>, markdown_only, i)
    IN  alt(<<Markdown("ItalicBold", italic_bold),
              Markdown("Bold", bold),
              Markdown("Italic", italic),
              Markdown("Code", code),
              Markdown("Spoiler", spoiler)>>)

\* the characters of a colour name
NameChars(name) ==
    CASE name = "white" -> <<"w", "h", "i", "t", "e">>
      [] name = "black" -> <<"b", "l", "a", "c", "k">>
      [] name = "blue" -> <<"b", "l", "u", "e">>
      [] name = "green" -> <<"g", "r", "e", "e", "n">>
      [] name = "red" -> <<"r", "e", "d">>
      [] name = "brown" -> <<"b", "r", "o", "w", "n">>
      [] name = "magenta" -> <<"m", "a", "g", "e", "n", "t", "a">>
      [] name = "orange" -> <<"o", "r", "a", "n", "g", "e">>
      [] name = "yellow" -> <<"y", "e", "l", "l", "o", "w">>
      [] name = "lightgreen" -> <<"l", "i", "g", "h", "t", "g", "r", "e", "e", "n">>
      [] name = "cyan" -> <<"c", "y", "a", "n">>
      [] name = "lightcyan" -> <<"l", "i", "g", "h", "t", "c", "y", "a", "n">>
      [] name = "lightblue" -> <<"l", "i", "g", "h", "t", "b", "l", "u", "e">>
      [] name = "pink" -> <<"p", "i", "n", "k">>
      [] name = "grey" -> <<"g", "r", "e", "y">>
      [] name = "lightgrey" -> <<"l", "i", "g", "h", "t", "g", "r", "e", "y">>

\* alt of map(tag(name), Color): the names are tried in palette order
color_name(i) ==
    alt([k \in 1..Len(Palette) |-> value(k - 1, tag(NameChars(Palette[k]), i))])

\* map_opt(recognize(many_m_n(1, 2, digit)), parse then Color::code)
color_digit(i) ==
    LET n == IF Len(i) >= 1 /\ IsDigit(i[1])
             THEN (IF Len(i) >= 2 /\ IsDigit(i[2]) THEN 2 ELSE 1)
             ELSE 0
        num == IF n = 1 THEN DigitVal(i[1])
               ELSE 10 * DigitVal(i[1]) + DigitVal(i[2])
    IN  IF n > 0 /\ Color_code(num) # NoColor THEN Ok(n, Color_code(num))
        ELSE Fail

color(i) == alt(<<color_name(i), color_digit(i)>>)

\* the comma is consumed even when no colour follows it
background_comma(i) ==
    LET c == tag(<<",">>, i)
        b == color(Drop(i, c.n))
    IN  IF c.ok /\ b.ok THEN Ok(c.n + b.n, b.val)
        ELSE IF c.ok THEN Ok(c.n, NoColor) ELSE Ok(0, NoColor)

\* map(opt(tuple((char(','), color))), ...): never fails
background(i) ==
    LET c == tag(<<",">>, i)
        b == color(Drop(i, c.n))
    IN  IF c.ok /\ b.ok THEN Ok(c.n + b.n, b.val) ELSE Ok(0, NoColor)

\* tuple((tag("$c"), tuple((color, background))))
start_color(i) ==
    LET t == tag(<<"$", "c">>, i)
        fg == color(Drop(i, t.n))
        bg == background(Drop(i, t.n + fg.n))
    IN  IF t.ok /\ fg.ok
        THEN Ok(t.n + fg.n + bg.n,
                [kind |-> "StartColor", text |-> <<>>, fg |-> fg.val, bg |-> bg.val])
        ELSE Fail

\* map(tag(t), Dollar::kind)
Dollar(kind, r) ==
    value([kind |-> kind, text |-> <<>>, fg |-> NoColor, bg |-> NoColor], r)

dollar(i) ==
    alt(<<Dollar("DollarBold", tag(<<"$", "b">>, i)),
          Dollar("DollarItalics", tag(<<"$", "i">>, i)),
          Dollar("DollarMonospace", tag(<<"$", "m">>, i)),
          Dollar("DollarReset", tag(<<"$", "r">>, i)),
          start_color(i),
          Dollar("EndColor", tag(<<"$", "c">>, i))>>)

\* map(r, Token::Plain) and map(r, Token::Unknown)
Token(kind, r) ==
    IF r.ok
    THEN Ok(r.n, [kind |-> kind, text |-> r.val, fg |-> NoColor, bg |-> NoColor])
    ELSE Fail

\* the directive rule is tried first and is not wrapped in skip
token_dollar_first(markdown_only, i) ==
    alt(<<dollar(i),
          Token("Plain", plain(markdown_only, i)),
          markdown(markdown_only, i),
          Token("Unknown", recognize(anychar(i), i))>>)

token(markdown_only, i) ==
    alt(<<Token("Plain", plain(markdown_only, i)),
          markdown(markdown_only, i),
          skip(markdown_only, dollar(i)),
          Token("Unknown", recognize(anychar(i), i))>>)

(***************************************************************************)
(* The encoder: what encode writes to out for one token.                   *)
(***************************************************************************)
\* the arm of Token::Plain writes nothing
render_no_plain(t) ==
    CASE t.kind = "Plain" -> <<>>
      [] t.kind = "Bold" -> <<Modifier_Bold>> \o t.text \o <<Modifier_Bold>>
      [] t.kind = "Italic" ->
            <<Modifier_Italics>> \o t.text \o <<Modifier_Italics>>
      [] t.kind = "ItalicBold" ->
            <<Modifier_Bold, Modifier_Italics>> \o t.text
                \o <<Modifier_Bold, Modifier_Italics>>
      [] t.kind = "Code" ->
            <<Modifier_Monospace>> \o t.text \o <<Modifier_Monospace>>
      [] t.kind = "Spoiler" ->
            <<Modifier_Color>> \o Color_digit(1) \o <<",">> \o Color_digit(1)
                \o t.text \o <<Modifier_Color>>
      [] t.kind = "DollarBold" -> <<Modifier_Bold>>
      [] t.kind = "DollarItalics" -> <<Modifier_Italics>>
      [] t.kind = "DollarMonospace" -> <<Modifier_Monospace>>
      [] t.kind = "DollarReset" -> <<Modifier_Reset>>
      [] t.kind = "StartColor" ->
            <<Modifier_Color>> \o Color_digit(t.fg)
                \o (IF t.bg # NoColor THEN <<",">> \o Color_digit(t.bg) ELSE <<>>)
      [] t.kind = "EndColor" -> <<Modifier_Color>>
      [] t.kind = "Unknown" -> t.text

\* the bold-italic span is closed in the mirrored order
render_mirrored(t) ==
    CASE t.kind = "Plain" -> t.text
      [] t.kind = "Bold" -> <<Modifier_Bold>> \o t.text \o <<Modifier_Bold>>
      [] t.kind = "Italic" ->
            <<Modifier_Italics>> \o t.text \o <<Modifier_Italics>>
      [] t.kind = "ItalicBold" ->
            <<Modifier_Bold, Modifier_Italics>> \o t.text
                \o <<Modifier_Italics, Modifier_Bold>>
      [] t.kind = "Code" ->
            <<Modifier_Monospace>> \o t.text \o <<Modifier_Monospace>>
      [] t.kind = "Spoiler" ->
            <<Modifier_Color>> \o Color_digit(1) \o <<",">> \o Color_digit(1)
                \o t.text \o <<Modifier_Color>>
      [] t.kind = "DollarBold" -> <<Modifier_Bold>>
      [] t.kind = "DollarItalics" -> <<Modifier_Italics>>
      [] t.kind = "DollarMonospace" -> <<Modifier_Monospace>>
      [] t.kind = "DollarReset" -> <<Modifier_Reset>>
      [] t.kind = "StartColor" ->
            <<Modifier_Color>> \o Color_digit(t.fg)
                \o (IF t.bg # NoColor THEN <<",">> \o Color_digit(t.bg) ELSE <<>>)
      [] t.kind = "EndColor" -> <<Modifier_Color>>
      [] t.kind = "Unknown" -> t.text

\* the arm of Dollar::StartColor never writes the background
render_no_background(t) ==
    CASE t.kind = "Plain" -> t.text
      [] t.kind = "Bold" -> <<Modifier_Bold>> \o t.text \o <<Modifier_Bold>>
      [] t.kind = "Italic" ->
            <<Modifier_Italics>> \o t.text \o <<Modifier_Italics>>
      [] t.kind = "ItalicBold" ->
            <<Modifier_Bold, Modifier_Italics>> \o t.text
                \o <<Modifier_Bold, Modifier_Italics>>
      [] t.kind = "Code" ->
            <<Modifier_Monospace>> \o t.text \o <<Modifier_Monospace>>
      [] t.kind = "Spoiler" ->
            <<Modifier_Color>> \o Color_digit(1) \o <<",">> \o Color_digit(1)
                \o t.text \o <<Modifier_Color>>
      [] t.kind = "DollarBold" -> <<Modifier_Bold>>
      [] t.kind = "DollarItalics" -> <<Modifier_Italics>>
      [] t.kind = "DollarMonospace" -> <<Modifier_Monospace>>
      [] t.kind = "DollarReset" -> <<Modifier_Reset>>
      [] t.kind = "StartColor" ->
            <<Modifier_Color>> \o Color_digit(t.fg)
      [] t.kind = "EndColor" -> <<Modifier_Color>>
      [] t.kind = "Unknown" -> t.text

render(t) ==
    CASE t.kind = "Plain" -> t.text
      [] t.kind = "Bold" -> <<Modifier_Bold>> \o t.text \o <<Modifier_Bold>>
      [] t.kind = "Italic" ->
            <<Modifier_Italics>> \o t.text \o <<Modifier_Italics>>
      [] t.kind = "ItalicBold" ->
            <<Modifier_Bold, Modifier_Italics>> \o t.text
                \o <<Modifier_Bold, Modifier_Italics>>
      [] t.kind = "Code" ->
            <<Modifier_Monospace>> \o t.text \o <<Modifier_Monospace>>
      [] t.kind = "Spoiler" ->
            <<Modifier_Color>> \o Color_digit(1) \o <<",">> \o Color_digit(1)
                \o t.text \o <<Modifier_Color>>
      [] t.kind = "DollarBold" -> <<Modifier_Bold>>
      [] t.kind = "DollarItalics" -> <<Modifier_Italics>>
      [] t.kind = "DollarMonospace" -> <<Modifier_Monospace>>
      [] t.kind = "DollarReset" -> <<Modifier_Reset>>
      [] t.kind = "StartColor" ->
            <<Modifier_Color>> \o Color_digit(t.fg)
                \o (IF t.bg # NoColor THEN <<",">> \o Color_digit(t.bg) ELSE <<>>)
      [] t.kind = "EndColor" -> <<Modifier_Color>>
      [] t.kind = "Unknown" -> t.text

(***************************************************************************)
(* encode as a function of its arguments: what a call returns.             *)
(***************************************************************************)
\* tuple((many0(token), eof)) on input i: [ok, toks]
RECURSIVE parse_from(_, _)
\* a token in front of the tokens of the rest
parse_cons(t, rest) == [ok |-> rest.ok, toks |-> <<t>> \o rest.toks]
\* many0 with the result r of token on input i
parse_step(markdown_only, i, r) ==
    IF r.ok
    THEN IF r.n = 0 THEN [ok |-> FALSE, toks |-> <<>>]
         ELSE parse_cons(r.val, parse_from(markdown_only, Drop(i, r.n)))
    ELSE [ok |-> i = <<>>, toks |-> <<>>]
parse_from(markdown_only, i) ==
    parse_step(markdown_only, i, token(markdown_only, i))

parse(i, markdown_only) == parse_from(markdown_only, i)

\* the for loop of encode over toks
RECURSIVE render_all(_)
render_all(toks) ==
    IF toks = <<>> THEN <<>> ELSE render(Head(toks)) \o render_all(Tail(toks))
\* encode, given what parse returned
encode_parsed(txt, p) == IF p.ok THEN render_all(p.toks) ELSE txt

encode(txt, mode) == encode_parsed(txt, parse(txt, mode))

(***************************************************************************)
(* The inputs of a call encode(text, markdown_only).                       *)
(***************************************************************************)
Strings(S, n) == UNION {[1..k -> S] : k \in 0..n}

\* every string of at most MaxLen characters over the reserved characters,
\* the backslash and one ordinary character
Alphabet == {"*", "_", Backtick, "|", "$", Backslash, "b"}
Exhaustive == Strings(Alphabet, MaxLen)

\* runs of ordinary characters
Words ==
    {<<"h", "i">>, <<"x", "y", "z">>, <<"h", "e", "l", "l", "o">>,
     <<"s", "e", "c", "r", "e", "t">>,
     <<"n", "o", "t", " ", "b", "o", "l", "d">>}
Runs == (Strings({"h", "!"}, MaxRun) \ {<<>>}) \cup Words

\* start x end, for every pair of delimiters
Delims ==
    {<<"*">>, <<"*", "*">>, <<"*", "*", "*">>, <<"_">>, <<"_", "_">>,
     <<"_", "_", "_">>, <<"*", "*", "_">>, <<"_", "*", "*">>,
     <<"_", "_", "*">>, <<"*", "_", "_">>, <<Backtick>>, <<"|">>,
     <<"|", "|">>, <<Backslash, "*">>, <<>>}
SpanInputs == {s \o x \o e : s \in Delims, e \in Delims, x \in Runs}

\* $c fg [,bg] x [$c] and the other dollar sequences
ColorWords ==
    {<<>>, <<"4">>, <<"1">>, <<"0", "4">>, <<"1", "5">>, <<"1", "6">>,
     <<"9", "9">>, <<"r", "e", "d">>, <<"b", "l", "a", "c", "k">>,
     <<"l", "i", "g", "h", "t", "g", "r", "e", "e", "n">>}
ColorArgs ==
    ColorWords \cup {f \o <<",">> \o b : f \in ColorWords, b \in ColorWords}
DollarInputs ==
    {<<"$", "c">> \o a \o x \o e :
        a \in ColorArgs, x \in Words \cup {<<>>}, e \in {<<>>, <<"$", "c">>}}
    \cup {p \o <<"$", d>> \o x :
            p \in {<<>>, <<"$">>, <<Backslash>>, <<"*">>},
            d \in {"b", "i", "m", "r", "c", "x"}, x \in Runs \cup {<<>>}}

\* the markdown inputs of the test internal_format
TestInputs ==
    {<<"h", "e", "l", "l", "o", " ", "t", "h", "e", "r", "e", " ", "f", "r",
       "i", "e", "n", "d", "!", "!">>,
     <<"h", "e", "l", "l", "o", " ", "t", "h", "e", "r", "e", " ", "_", "f",
       "r", "i", "e", "n", "d", "_", "!", "!">>,
     <<"h", "e", "l", "l", "o", " ", "t", "h", "e", "r", "e", " ", "_", "_",
       "f", "r", "i", "e", "n", "d", "_", "_", "!", "!">>,
     <<"h", "e", "l", "l", "o", " ", "t", "h", "e", "r", "e", " ", "_", "_",
       "_", "f", "r", "i", "e", "n", "d", "_", "_", "_", "!", "!">>,
     <<"h", "e", "l", "l", "o", " ", "t", "h", "e", "r", "e", " ", "*", "*",
       "_", Backslash, "_", "f", "r", "i", Backslash, "_", "e", "n", "d",
       Backslash, "_", "_", "*", "*", "!", "!">>,
     <<"s", "o", "m", "e", " ", "c", "o", "d", "e", " ", Backtick, "l", "e",
       "t", " ", "x", " ", "=", " ", "0", ";", Backtick>>,
     <<"s", "p", "o", "i", "l", "e", "r", " ", "-", "-", ">", " ", "|", "|",
       "s", "u", "p", "e", "r", " ", "s", "e", "c", "r", "e", "t", "|", "|">>}

Inputs == Exhaustive \cup SpanInputs \cup DollarInputs \cup TestInputs

(***************************************************************************)
(* One call of encode as a state machine.                                  *)
(*   text, markdown_only  the arguments                                    *)
(*   pc      "parse": in many0(token); "encode": in the for loop;          *)
(*           "done": returned                                              *)
(*   input   what the lexer has not consumed yet                           *)
(*   tokens  the tokens many0 has collected                                *)
(*   spans   the slice of text each token was made from                    *)
(*   parsed  "Some" or "None" once parse has returned                      *)
(*   next    index of the token the for loop renders next                  *)
(*   out     the output built so far; the return value once pc = "done"    *)
(***************************************************************************)
VARIABLES text, markdown_only, pc, input, tokens, spans, parsed, next, out

encodeVars == <<text, markdown_only, pc, input, tokens, spans, parsed, next, out>>

(***************************************************************************)
(* The state of the other components; each is at rest while another runs.  *)
(*   map, result, call     server.rs: Map.0, what the last call of         *)
(*                         read_passwords returned ("none": not called)    *)
(*                         and the last method called on the Map, with     *)
(*                         whether its server was in the map               *)
(*   network_id, network_s, network                                        *)
(*                         bouncer.rs: the arguments id and s of           *)
(*                         BouncerNetwork::parse and what it returned      *)
(*   key, modifiers, on_press, shell, inner_events, status                 *)
(*                         key_press.rs: the arguments of key_press, the   *)
(*                         messages published to the shell, the events     *)
(*                         the inner widget received, the last status      *)
(*   read_marker, string, parsed_marker                                    *)
(*                         metadata.rs: a ReadMarker, its to_string() and  *)
(*                         what from_str returned for it                   *)
(***************************************************************************)
VARIABLES map, result, call
VARIABLES network_id, network_s, network
VARIABLES key, modifiers, on_press, shell, inner_events, status
VARIABLES read_marker, string, parsed_marker

serverVars == <<map, result, call>>
bouncerVars == <<network_id, network_s, network>>
keyVars == <<key, modifiers, on_press, shell, inner_events, status>>
markerVars == <<read_marker, string, parsed_marker>>

vars == <<encodeVars, serverVars, bouncerVars, keyVars, markerVars>>

\* no call of encode is in progress
EncodeIdle ==
    /\ text = <<>> /\ markdown_only = FALSE /\ pc = "idle" /\ input = <<>>
    /\ tokens = <<>> /\ spans = <<>> /\ parsed = "pending" /\ next = 1
    /\ out = <<>>
\* Map::default() and no call of read_passwords
EmptyMap == [n \in {} |-> n]
Call(op, present) == [op |-> op, present |-> present]
ServerIdle == map = EmptyMap /\ result = "none" /\ call = Call("none", FALSE)
\* no call of BouncerNetwork::parse
BouncerIdle == network_id = "" /\ network_s = <<>> /\ network = <<>>
\* no key_press widget
KeyIdle ==
    /\ key = "none" /\ modifiers = {} /\ on_press = "none" /\ shell = <<>>
    /\ inner_events = <<>> /\ status = "none"
\* no ReadMarker
MarkerIdle == read_marker = <<>> /\ string = <<>> /\ parsed_marker = <<>>

Init ==
    /\ text \in Inputs
    /\ markdown_only \in BOOLEAN
    /\ pc = "parse"
    /\ input = text
    /\ tokens = <<>>
    /\ spans = <<>>
    /\ parsed = "pending"
    /\ next = 1
    /\ out = <<>>
    /\ ServerIdle /\ BouncerIdle /\ KeyIdle /\ MarkerIdle

\* parse returned None: encode returns text.to_string()
ReturnText ==
    /\ parsed' = "None"
    /\ out' = text
    /\ pc' = "done"
    /\ UNCHANGED <<tokens, spans, input, next>>

\* many0 with the result r of token on input, when token succeeds
many0_push(r) ==
    /\ r.ok
    /\ IF r.n = 0
       THEN \* many0 rejects a parser that consumes nothing
            ReturnText
       ELSE /\ tokens' = Append(tokens, r.val)
            /\ spans' = Append(spans, Take(input, r.n))
            /\ input' = Drop(input, r.n)
            /\ UNCHANGED <<pc, parsed, next, out>>

\* one iteration of many0(token) in which token succeeds
many0_token ==
    /\ pc = "parse"
    /\ many0_push(token(markdown_only, input))
    /\ UNCHANGED <<text, markdown_only>>
    /\ UNCHANGED <<serverVars, bouncerVars, keyVars, markerVars>>

\* token fails: many0 ends and eof decides what parse returns
eof ==
    /\ pc = "parse"
    /\ ~token(markdown_only, input).ok
    /\ IF input = <<>>
       THEN /\ parsed' = "Some"
            /\ pc' = "encode"
            /\ UNCHANGED <<tokens, spans, input, next, out>>
       ELSE ReturnText
    /\ UNCHANGED <<text, markdown_only>>
    /\ UNCHANGED <<serverVars, bouncerVars, keyVars, markerVars>>

\* one iteration of `for token in tokens`
push ==
    /\ pc = "encode"
    /\ next <= Len(tokens)
    /\ out' = out \o render(tokens[next])
    /\ next' = next + 1
    /\ UNCHANGED <<text, markdown_only, pc, input, tokens, spans, parsed>>
    /\ UNCHANGED <<serverVars, bouncerVars, keyVars, markerVars>>

\* the loop is over: encode returns out
return ==
    /\ pc = "encode"
    /\ next > Len(tokens)
    /\ pc' = "done"
    /\ UNCHANGED <<text, markdown_only, input, tokens, spans, parsed, next, out>>
    /\ UNCHANGED <<serverVars, bouncerVars, keyVars, markerVars>>

Next == many0_token \/ eof \/ push \/ return

Spec == Init /\ [][Next]_vars

(***************************************************************************)
(* dollar and the for loop of encode as functions of their arguments:      *)
(* dollar is applied to an input that starts with `$`, and the loop        *)
(* renders the directive it returned.  pc = "dollar": dollar has not been  *)
(* called yet.                                                             *)
(***************************************************************************)
\* the inputs dollar is applied to
DirectiveInputs == {s \in DollarInputs : s # <<>> /\ s[1] = "$"}

DollarInit ==
    /\ text \in DirectiveInputs
    /\ markdown_only = FALSE
    /\ pc = "dollar"
    /\ input = text
    /\ tokens = <<>>
    /\ spans = <<>>
    /\ parsed = "pending"
    /\ next = 1
    /\ out = <<>>
    /\ ServerIdle /\ BouncerIdle /\ KeyIdle /\ MarkerIdle

\* the result r of dollar on input: Ok((rest, directive)) or Err
dollar_result(r) ==
    IF r.ok
    THEN /\ tokens' = <<r.val>>
         /\ spans' = <<Take(input, r.n)>>
         /\ input' = Drop(input, r.n)
         /\ parsed' = "Some"
         /\ pc' = "encode"
         /\ UNCHANGED <<next, out>>
    ELSE /\ parsed' = "None"
         /\ pc' = "done"
         /\ UNCHANGED <<tokens, spans, input, next, out>>

\* one call of dollar
dollar_call ==
    /\ pc = "dollar"
    /\ dollar_result(dollar(input))
    /\ UNCHANGED <<text, markdown_only>>
    /\ UNCHANGED <<serverVars, bouncerVars, keyVars, markerVars>>

DollarNext == dollar_call \/ push \/ return

DollarSpec == DollarInit /\ [][DollarNext]_vars

TypeOK ==
    /\ pc \in {"dollar", "parse", "encode", "done"}
    /\ parsed \in {"pending", "Some", "None"}
    /\ next \in 1..(Len(tokens) + 1)
    /\ Len(spans) = Len(tokens)

(***************************************************************************)
(* server.rs: Map, a BTreeMap from Server to MapVal {config, children}.    *)
(* An Option is "None" or the value; a BouncerNetwork is named by its id.  *)
(***************************************************************************)
\* longest children vector of one server
MaxChildren == 2

None == "None"
is_some(o) == o # None

\* the server names, in the order of Ord for Server (String order)
Servers == <<"libera", "oftc", "soju">>
ServerNames == {Servers[k] : k \in 1..Len(Servers)}
Networks == {"net1", "net2"}

\* config::server::Sasl, and no sasl section
NoSasl ==
    [kind |-> "None", password |-> None, password_file |-> None,
     password_command |-> None]
Sasls ==
    {NoSasl}
    \cup {[NoSasl EXCEPT !.kind = "External"]}
    \cup [kind : {"Plain"}, password : {None, "sasl-pass"},
          password_file : {None, "sasl.txt"},
          password_command : {None, "sasl-cmd"}]

\* the fields of config::Server that read_passwords uses
AllConfigs ==
    [password : {None, "pass"},
     password_file : {None, "pass.txt"},
     password_command : {None, "pass-cmd"},
     nick_password : {None, "nick"},
     nick_password_file : {None, "nick.txt"},
     nick_password_command : {None, "nick-cmd"},
     sasl : Sasls]
PlainConfig ==
    [password |-> None, password_file |-> None, password_command |-> None,
     nick_password |-> None, nick_password_file |-> None,
     nick_password_command |-> None, sasl |-> NoSasl]
\* the configs insert is called with
Configs == {PlainConfig, [PlainConfig EXCEPT !.password = "pass"]}

\* MapVal::from(config)
MapVal_from(config) == [config |-> config, children |-> <<>>]

\* the MapVal of a name already present keeps its children
insert_keep_children(name, server) ==
    /\ map' = [n \in DOMAIN map \cup {name} |->
                  IF n = name
                  THEN IF name \in DOMAIN map
                       THEN [map[name] EXCEPT !.config = server]
                       ELSE MapVal_from(server)
                  ELSE map[n]]
    /\ call' = Call("insert", name \in DOMAIN map)
    /\ UNCHANGED result
    /\ UNCHANGED <<encodeVars, bouncerVars, keyVars, markerVars>>

insert(name, server) ==
    /\ map' = [n \in DOMAIN map \cup {name} |->
                  IF n = name THEN MapVal_from(server) ELSE map[n]]
    /\ call' = Call("insert", name \in DOMAIN map)
    /\ UNCHANGED result
    /\ UNCHANGED <<encodeVars, bouncerVars, keyVars, markerVars>>

insert_bouncer_network(name, net) ==
    /\ IF name \in DOMAIN map
       THEN /\ Len(map[name].children) < MaxChildren
            /\ map' = [map EXCEPT ![name].children = Append(@, net)]
       ELSE UNCHANGED map
    /\ call' = Call("insert_bouncer_network", name \in DOMAIN map)
    /\ UNCHANGED result
    /\ UNCHANGED <<encodeVars, bouncerVars, keyVars, markerVars>>

remove(server) ==
    /\ map' = [n \in DOMAIN map \ {server} |-> map[n]]
    /\ call' = Call("remove", server \in DOMAIN map)
    /\ UNCHANGED result
    /\ UNCHANGED <<encodeVars, bouncerVars, keyVars, markerVars>>

contains(m, server) == server \in DOMAIN m

\* BTreeMap::keys: ascending
InMap(m, n) == n \in DOMAIN m
keys(m) == LET Has(n) == InMap(m, n) IN SelectSeq(Servers, Has)

primary_entry(server, v) ==
    [server |-> server, config |-> v.config, bouncer_network |-> None]
\* the children are chained before the primary entry
Entry_from_children_first(server, v) ==
    [k \in 1..Len(v.children) |->
        [server |-> server, config |-> v.config,
         bouncer_network |-> v.children[k]]]
        \o <<primary_entry(server, v)>>

\* iter::once(primary_entry).chain(children.iter().map(...))
Entry_from(server, v) ==
    <<primary_entry(server, v)>>
        \o [k \in 1..Len(v.children) |->
               [server |-> server, config |-> v.config,
                bouncer_network |-> v.children[k]]]

\* self.0.iter().flat_map(Entry::from), over the keys ks
RECURSIVE flat_map(_, _)
flat_map(m, ks) ==
    IF ks = <<>> THEN <<>>
    ELSE Entry_from(Head(ks), m[Head(ks)]) \o flat_map(m, Tail(ks))
entries(m) == flat_map(m, keys(m))

is_none(e) == e.bouncer_network = None
primary_entries(m) == SelectSeq(entries(m), is_none)

ServerInit ==
    /\ map = EmptyMap
    /\ result = "none"
    /\ call = Call("none", FALSE)
    /\ EncodeIdle /\ BouncerIdle /\ KeyIdle /\ MarkerIdle

ServerNext ==
    \/ \E name \in ServerNames, server \in Configs : insert(name, server)
    \/ \E name \in ServerNames, net \in Networks :
          insert_bouncer_network(name, net)
    \/ \E server \in ServerNames : remove(server)

ServerSpec == ServerInit /\ [][ServerNext]_vars

(***************************************************************************)
(* server.rs: Map::read_passwords on a Map deserialized from the           *)
(* configuration.  A call holds &mut self, so it is one step.  env says    *)
(* whether reading a file and running a command succeed.                   *)
(***************************************************************************)
Envs == [file : BOOLEAN, command : BOOLEAN]

\* fs::read_to_string(path) when it succeeds
read_to_string(path) ==
    CASE path = "pass.txt" -> "pass-in-file"
      [] path = "nick.txt" -> "nick-in-file"
      [] path = "sasl.txt" -> "sasl-in-file"
\* read_from_command(command) when it succeeds: the trimmed stdout
read_from_command(command) ==
    CASE command = "pass-cmd" -> "pass-from-cmd"
      [] command = "nick-cmd" -> "nick-from-cmd"
      [] command = "sasl-cmd" -> "sasl-from-cmd"

\* the loop body on one config: the config so far and Ok or the error
Running(config) == [config |-> config, err |-> "Ok"]
Err(st, e) == [st EXCEPT !.err = e]

\* if let Some(pass_file) = &config.password_file
read_password_file(st, env) ==
    IF st.err = "Ok" /\ is_some(st.config.password_file)
    THEN IF is_some(st.config.password) \/ is_some(st.config.password_command)
         THEN Err(st, "DuplicatePassword")
         ELSE IF ~env.file THEN Err(st, "Io")
         ELSE [st EXCEPT
                  !.config.password = read_to_string(st.config.password_file)]
    ELSE st

\* if let Some(pass_command) = &config.password_command
read_password_command(st, env) ==
    IF st.err = "Ok" /\ is_some(st.config.password_command)
    THEN IF is_some(st.config.password)
         THEN Err(st, "DuplicatePassword")
         ELSE IF ~env.command THEN Err(st, "ExecutePasswordCommand")
         ELSE [st EXCEPT
                  !.config.password =
                      read_from_command(st.config.password_command)]
    ELSE st

\* if let Some(nick_pass_file) = &config.nick_password_file
read_nick_password_file(st, env) ==
    IF st.err = "Ok" /\ is_some(st.config.nick_password_file)
    THEN IF is_some(st.config.nick_password)
              \/ is_some(st.config.nick_password_command)
         THEN Err(st, "DuplicateNickPassword")
         ELSE IF ~env.file THEN Err(st, "Io")
         ELSE [st EXCEPT
                  !.config.nick_password =
                      read_to_string(st.config.nick_password_file)]
    ELSE st

\* if let Some(nick_pass_command) = &config.nick_password_command: the code
\* checks and assigns config.password
read_nick_password_command(st, env) ==
    IF st.err = "Ok" /\ is_some(st.config.nick_password_command)
    THEN IF is_some(st.config.password)
         THEN Err(st, "DuplicateNickPassword")
         ELSE IF ~env.command THEN Err(st, "ExecutePasswordCommand")
         ELSE [st EXCEPT
                  !.config.password =
                      read_from_command(st.config.nick_password_command)]
    ELSE st

\* match sasl, for Sasl::Plain
read_sasl_plain(st, env, sasl) ==
    CASE is_some(sasl.password) /\ sasl.password_file = None
            /\ sasl.password_command = None -> st
      [] sasl.password = None /\ is_some(sasl.password_file)
            /\ sasl.password_command = None ->
            IF ~env.file THEN Err(st, "Io")
            ELSE [st EXCEPT !.config.sasl.password =
                                read_to_string(sasl.password_file)]
      [] sasl.password = None /\ sasl.password_file = None
            /\ is_some(sasl.password_command) ->
            IF ~env.command THEN Err(st, "ExecutePasswordCommand")
            ELSE [st EXCEPT !.config.sasl.password =
                                read_from_command(sasl.password_command)]
      [] OTHER -> Err(st, "DuplicateSaslPassword")

\* if let Some(sasl) = &mut config.sasl
read_sasl(st, env) ==
    IF st.err = "Ok" /\ st.config.sasl.kind = "Plain"
    THEN read_sasl_plain(st, env, st.config.sasl)
    ELSE st

\* one iteration of the for loop
read_config(config, env) ==
    read_sasl(
        read_nick_password_command(
            read_nick_password_file(
                read_password_command(
                    read_password_file(Running(config), env), env), env),
            env), env)

\* the for loop over self.0.iter_mut(), from the servers ks on; st is the
\* outcome of the iteration for Head(ks), whose config keeps what was
\* written before an error
RECURSIVE read_from(_, _, _)
read_next(m, ks, env, st) ==
    IF st.err = "Ok"
    THEN read_from([m EXCEPT ![Head(ks)].config = st.config], Tail(ks), env)
    ELSE [map |-> [m EXCEPT ![Head(ks)].config = st.config], err |-> st.err]
read_from(m, ks, env) ==
    IF ks = <<>> THEN [map |-> m, err |-> "Ok"]
    ELSE read_next(m, ks, env, read_config(m[Head(ks)].config, env))

\* read_passwords returns r.err and leaves the map r.map
read_passwords_returns(r) ==
    /\ map' = r.map
    /\ result' = r.err
    /\ call' = Call("read_passwords", FALSE)

read_passwords(env) ==
    /\ read_passwords_returns(read_from(map, keys(map), env))
    /\ UNCHANGED <<encodeVars, bouncerVars, keyVars, markerVars>>

\* the configs without server-password files or commands and without sasl
NickConfigs ==
    {c \in AllConfigs : /\ c.password_file = None
                        /\ c.password_command = None
                        /\ c.sasl = NoSasl}
\* the maps read_passwords is called on: one server with any config, or two
\* servers
PasswordMaps ==
    {[n \in {"libera"} |-> MapVal_from(c)] : c \in AllConfigs}
    \cup {[n \in {"libera", "oftc"} |->
              MapVal_from(IF n = "libera" THEN c ELSE d)] :
            c \in NickConfigs, d \in NickConfigs}

PasswordInit ==
    /\ map \in PasswordMaps
    /\ result = "none"
    /\ call = Call("none", FALSE)
    /\ EncodeIdle /\ BouncerIdle /\ KeyIdle /\ MarkerIdle

PasswordNext == \E env \in Envs : read_passwords(env)

PasswordSpec == PasswordInit /\ [][PasswordNext]_vars

(***************************************************************************)
(* bouncer.rs: BouncerNetwork::parse(id, s).  The string s is a sequence   *)
(* of atoms: the separators ";" and "=" and words without separators.  An  *)
(* Option is none or Some(v).  network is <<>> until parse has returned    *)
(* and then holds what it returned.                                        *)
(***************************************************************************)
none == [some |-> FALSE, v |-> <<>>]
Some(v) == [some |-> TRUE, v |-> v]

\* index of the first atom c of str, 0 if there is none
find(c, str) ==
    IF \E k \in 1..Len(str) : str[k] = c
    THEN CHOOSE k \in 1..Len(str) :
            str[k] = c /\ \A j \in 1..(k - 1) : str[j] # c
    ELSE 0

\* s.split(';'), with at the index of the first ";" of str
RECURSIVE split(_)
split_at(str, at) ==
    IF at = 0 THEN <<str>>
    ELSE <<Take(str, at - 1)>> \o split(Drop(str, at))
split(str) == split_at(str, find(";", str))

\* k.split_once('='), with at the index of the first "=" of k
split_once_at(k, at) ==
    IF at = 0 THEN none ELSE Some(<<Take(k, at - 1), Drop(k, at)>>)
split_once(k) == split_once_at(k, find("=", k))

\* .map(split_once).flatten().collect::<BTreeMap>() over the parts ps: a
\* later pair replaces an earlier one with the same key
RECURSIVE collect(_, _)
collect_pair(pm, ps, kv) ==
    IF kv.some
    THEN collect([key_ \in DOMAIN pm \cup {kv.v[1]} |->
                     IF key_ = kv.v[1] THEN kv.v[2] ELSE pm[key_]], Tail(ps))
    ELSE collect(pm, Tail(ps))
collect(pm, ps) ==
    IF ps = <<>> THEN pm ELSE collect_pair(pm, ps, split_once(Head(ps)))

parameter_map(str) == collect(EmptyMap, split(str))

\* parameter_map.get(name)
get(pm, name) == IF <<name>> \in DOMAIN pm THEN Some(pm[<<name>>]) ELSE none

\* NetworkState::from_str
NetworkState_from_str(str) ==
    CASE str = <<"connected">> -> Some("Connected")
      [] str = <<"connecting">> -> Some("Connecting")
      [] str = <<"disconnected">> -> Some("Disconnected")
      [] OTHER -> none

\* str::parse::<u16>().ok(), on the words used as port values
Ports == {"6697", "1", "0"}
parse_u16(str) ==
    IF Len(str) = 1 /\ str[1] \in Ports THEN Some(str[1]) ELSE none

\* o.and_then(f) and the operator ? for the Options of parse
and_then_u16(o) == IF o.some THEN parse_u16(o.v) ELSE none
and_then_state(o) == IF o.some THEN NetworkState_from_str(o.v) ELSE none

\* the match on parameter_map.get(...).map(|s| *s) that gives tls
tls_of(o) ==
    IF o.some /\ o.v = <<"1">> THEN Some(TRUE)
    ELSE IF o.some /\ o.v = <<"0">> THEN Some(FALSE)
    ELSE none

\* BouncerNetwork::parse, given the parameter map: state and tls are read
\* from the attribute port
BouncerNetwork_parse(id, pm) ==
    IF get(pm, "name").some /\ get(pm, "host").some
          /\ and_then_state(get(pm, "port")).some
    THEN Some([id |-> id,
               name |-> get(pm, "name").v,
               host |-> get(pm, "host").v,
               port |-> and_then_u16(get(pm, "port")),
               nickname |-> get(pm, "nickname"),
               realname |-> get(pm, "realname"),
               pass |-> get(pm, "pass"),
               state |-> and_then_state(get(pm, "port")).v,
               tls |-> tls_of(get(pm, "port")),
               error |-> get(pm, "error")])
    ELSE none

\* the attributes of the inputs: at most one of each row, in this order or
\* in the reverse order
Attribute(name, val) == <<name, "=", val>>
AttributeRows ==
    <<{<<>>, Attribute("name", "libera")},
      {<<>>, Attribute("host", "irc.libera.chat")},
      {<<>>, Attribute("state", "connected"),
       Attribute("state", "connecting"), Attribute("state", "disconnected"),
       Attribute("state", "bogus")},
      {<<>>, Attribute("port", "6697"), Attribute("port", "1"),
       Attribute("port", "0"), Attribute("port", "connected"),
       Attribute("port", "soon")},
      {<<>>, Attribute("tls", "1"), Attribute("tls", "0"),
       Attribute("tls", "yes")},
      {<<>>, <<"junk">>, Attribute("nickname", "nick"),
       Attribute("name", "oftc"), <<"error", "=", "a", "=", "b">>}>>

\* the attributes ps joined with ";"
RECURSIVE join(_)
join(ps) ==
    IF ps = <<>> THEN <<>>
    ELSE IF Len(ps) = 1 THEN Head(ps)
    ELSE Head(ps) \o <<";">> \o join(Tail(ps))
Present(p) == p # <<>>
Reverse(ps) == [k \in 1..Len(ps) |-> ps[Len(ps) + 1 - k]]
AttributeStrings ==
    {join(SelectSeq(<<a1, a2, a3, a4, a5, a6>>, Present)) :
        a1 \in AttributeRows[1], a2 \in AttributeRows[2],
        a3 \in AttributeRows[3], a4 \in AttributeRows[4],
        a5 \in AttributeRows[5], a6 \in AttributeRows[6]}
    \cup {<<";">>, <<"=">>, <<"name", "=", ";", "host", "=">>}

BouncerInit ==
    /\ network_id \in {"1", "42"}
    /\ network_s \in AttributeStrings
                        \cup {join(Reverse(split(str))) : str \in AttributeStrings}
    /\ network = <<>>
    /\ EncodeIdle /\ ServerIdle /\ KeyIdle /\ MarkerIdle

\* one call BouncerNetwork::parse(network_id, network_s)
parse_network ==
    /\ network = <<>>
    /\ network' = <<BouncerNetwork_parse(network_id, parameter_map(network_s))>>
    /\ UNCHANGED <<network_id, network_s>>
    /\ UNCHANGED <<encodeVars, serverVars, keyVars, markerVars>>

BouncerNext == parse_network

BouncerSpec == BouncerInit /\ [][BouncerNext]_vars

(***************************************************************************)
(* key_press.rs: the on_event closure of the widget key_press returns.     *)
(* An event is a record [kind, key, modifiers]; shell holds the published  *)
(* messages with who published them; the inner widget may publish and      *)
(* returns either status.                                                  *)
(***************************************************************************)
\* most events one widget receives
MaxEvents == 2

Keys == {"Enter", "Escape"}
ModifierSets == {{}, {"CTRL"}}
Events ==
    [kind : {"KeyPressed"}, key : Keys, modifiers : ModifierSets]
    \cup {[kind |-> "KeyReleased", key |-> "Enter", modifiers |-> {"CTRL"}],
          [kind |-> "KeyReleased", key |-> "Escape", modifiers |-> {}],
          [kind |-> "Mouse", key |-> "none", modifiers |-> {}]}
Statuses == {"Captured", "Ignored"}
\* what the inner widget publishes while it handles one event
InnerPublishes == {<<>>, <<[by |-> "inner", message |-> "Typed"]>>}

\* shell.publish(on_press.clone()) by the closure
publish(message) == Append(shell, [by |-> "key_press", message |-> message])

\* the events handled so far
Handled ==
    Len(inner_events)
        + Cardinality({k \in 1..Len(shell) : shell[k].by = "key_press"})

\* the modifiers of the event are not compared
on_event_any_modifiers(event, inner_status, inner_publish) ==
    /\ Handled < MaxEvents
    /\ IF event.kind = "KeyPressed" /\ key = event.key
       THEN /\ shell' = publish(on_press)
            /\ status' = "Captured"
            /\ UNCHANGED inner_events
       ELSE /\ inner_events' = Append(inner_events, event)
            /\ shell' = shell \o inner_publish
            /\ status' = inner_status
    /\ UNCHANGED <<key, modifiers, on_press>>
    /\ UNCHANGED <<encodeVars, serverVars, bouncerVars, markerVars>>

\* the closure on one event; the inner widget, when it is called, publishes
\* inner_publish and returns inner_status
on_event(event, inner_status, inner_publish) ==
    /\ Handled < MaxEvents
    /\ IF event.kind = "KeyPressed" /\ key = event.key
            /\ modifiers = event.modifiers
       THEN /\ shell' = publish(on_press)
            /\ status' = "Captured"
            /\ UNCHANGED inner_events
       ELSE /\ inner_events' = Append(inner_events, event)
            /\ shell' = shell \o inner_publish
            /\ status' = inner_status
    /\ UNCHANGED <<key, modifiers, on_press>>
    /\ UNCHANGED <<encodeVars, serverVars, bouncerVars, markerVars>>

\* key_press(base, key, modifiers, on_press)
KeyInit ==
    /\ key \in Keys
    /\ modifiers \in ModifierSets
    /\ on_press \in {"Submit", "Close"}
    /\ shell = <<>>
    /\ inner_events = <<>>
    /\ status = "none"
    /\ EncodeIdle /\ ServerIdle /\ BouncerIdle /\ MarkerIdle

KeyNext ==
    \E event \in Events, inner_status \in Statuses,
       inner_publish \in InnerPublishes :
        on_event(event, inner_status, inner_publish)

KeySpec == KeyInit /\ [][KeyNext]_vars

(***************************************************************************)
(* metadata.rs: ReadMarker(DateTime<Utc>), its Display and its FromStr.    *)
(* A DateTime is [days, secs, nanos]: days since 1970-01-01, seconds of    *)
(* the day, nanoseconds of the second.  string and parsed_marker are <<>>  *)
(* until to_string and from_str have returned.                             *)
(***************************************************************************)
\* the ReadMarkers: days in January and February 1970
MarkerDays == {0, 30, 31, 58}
MarkerSecs == {0, 59, 3600, 45296, 86399}
MarkerNanos ==
    {0, 1, 999999, 1000000, 123000000, 123456789, 999000000, 999999999}
ReadMarkers == [days : MarkerDays, secs : MarkerSecs, nanos : MarkerNanos]

\* {:02} and {:03}
pad2(n) == <<Digits[(n \div 10) + 1], Digits[(n % 10) + 1]>>
pad3(n) == <<Digits[(n \div 100) + 1]>> \o pad2(n % 100)
\* the number a digit string denotes
RECURSIVE number(_)
number(ds) ==
    IF ds = <<>> THEN 0
    ELSE 10 * number(SubSeq(ds, 1, Len(ds) - 1)) + DigitVal(ds[Len(ds)])
all_digits(ds) == \A k \in 1..Len(ds) : IsDigit(ds[k])

\* the date of a day of January or February 1970, and back
date(days) ==
    <<"1", "9", "7", "0", "-">>
        \o (IF days < 31 THEN pad2(1) \o <<"-">> \o pad2(days + 1)
            ELSE pad2(2) \o <<"-">> \o pad2(days - 30))
days_of(month, day) == IF month = 1 THEN day - 1 ELSE 30 + day

\* the seconds are written and the fraction is left out
ReadMarker_to_string_secs(m) ==
    date(m.days) \o <<"T">> \o pad2(m.secs \div 3600) \o <<":">>
        \o pad2((m.secs \div 60) % 60) \o <<":">> \o pad2(m.secs % 60)
        \o <<"Z">>

\* Display: self.0.to_rfc3339_opts(SecondsFormat::Millis, true)
ReadMarker_to_string(m) ==
    date(m.days) \o <<"T">> \o pad2(m.secs \div 3600) \o <<":">>
        \o pad2((m.secs \div 60) % 60) \o <<":">> \o pad2(m.secs % 60)
        \o <<".">> \o pad3(m.nanos \div 1000000) \o <<"Z">>

\* FromStr: DateTime::parse_from_rfc3339(s) then with_timezone(&Utc), for
\* the layouts YYYY-MM-DDTHH:MM:SSZ and YYYY-MM-DDTHH:MM:SS.mmmZ
well_formed(str) ==
    /\ Len(str) \in {20, 24}
    /\ SubSeq(str, 1, 5) = <<"1", "9", "7", "0", "-">>
    /\ str[8] = "-" /\ str[11] = "T" /\ str[14] = ":" /\ str[17] = ":"
    /\ IF Len(str) = 20 THEN str[20] = "Z"
       ELSE /\ str[20] = "." /\ str[24] = "Z"
            /\ all_digits(SubSeq(str, 21, 23))
    /\ all_digits(SubSeq(str, 6, 7)) /\ all_digits(SubSeq(str, 9, 10))
    /\ all_digits(SubSeq(str, 12, 13)) /\ all_digits(SubSeq(str, 15, 16))
    /\ all_digits(SubSeq(str, 18, 19))
    /\ number(SubSeq(str, 6, 7)) \in 1..2
    /\ number(SubSeq(str, 9, 10)) \in 1..31
    /\ number(SubSeq(str, 12, 13)) < 24
    /\ number(SubSeq(str, 15, 16)) < 60
    /\ number(SubSeq(str, 18, 19)) < 60
\* the nanoseconds the fraction of str denotes
fraction(str) ==
    IF Len(str) = 24 THEN 1000000 * number(SubSeq(str, 21, 23)) ELSE 0
ReadMarker_from_str(str) ==
    IF well_formed(str)
    THEN [ok |-> TRUE,
          v |-> [days |-> days_of(number(SubSeq(str, 6, 7)),
                                  number(SubSeq(str, 9, 10))),
                 secs |-> 3600 * number(SubSeq(str, 12, 13))
                            + 60 * number(SubSeq(str, 15, 16))
                            + number(SubSeq(str, 18, 19)),
                 nanos |-> fraction(str)]]
    ELSE [ok |-> FALSE, v |-> "ParseError"]

MarkerInit ==
    /\ read_marker \in ReadMarkers
    /\ string = <<>>
    /\ parsed_marker = <<>>
    /\ EncodeIdle /\ ServerIdle /\ BouncerIdle /\ KeyIdle

\* read_marker.to_string()
to_string ==
    /\ string = <<>>
    /\ string' = ReadMarker_to_string(read_marker)
    /\ UNCHANGED <<read_marker, parsed_marker>>
    /\ UNCHANGED <<encodeVars, serverVars, bouncerVars, keyVars>>

\* ReadMarker::from_str(&string)
from_str ==
    /\ string # <<>>
    /\ parsed_marker = <<>>
    /\ parsed_marker' = <<ReadMarker_from_str(string)>>
    /\ UNCHANGED <<read_marker, string>>
    /\ UNCHANGED <<encodeVars, serverVars, bouncerVars, keyVars>>

MarkerNext == to_string \/ from_str

MarkerSpec == MarkerInit /\ [][MarkerNext]_vars

(***************************************************************************)
(* Vocabulary of the properties.                                           *)
(***************************************************************************)
Delimiters == {"*", "_", Backtick, "|"}
Reserved == Delimiters \cup {"$"}
DollarKinds ==
    {"DollarBold", "DollarItalics", "DollarMonospace", "DollarReset",
     "StartColor", "EndColor"}
MarkdownKinds == {"Bold", "Italic", "ItalicBold", "Code", "Spoiler"}

\* s is a run of ordinary characters
Ordinary(s) == \A k \in 1..Len(s) : s[k] \notin Reserved \cup {Backslash}
\* the positions at which w occurs in s
Occurrences(w, s) ==
    {k \in 1..(Len(s) - Len(w) + 1) : SubSeq(s, k, k + Len(w) - 1) = w}
Contains(w, s) == Occurrences(w, s) # {}
\* the modifier bytes of s
ModifiersIn(s) == {k \in 1..Len(s) : s[k] \in ModifierBytes}
\* text is start x end for a nonempty run x of ordinary characters
IsSpan(start, end) ==
    /\ Len(text) > Len(start) + Len(end)
    /\ Take(text, Len(start)) = start
    /\ Drop(text, Len(text) - Len(end)) = end
    /\ Ordinary(SubSeq(text, Len(start) + 1, Len(text) - Len(end)))
Inner(start, end) == SubSeq(text, Len(start) + 1, Len(text) - Len(end))
\* encode(text, FALSE) has returned; encode(text, TRUE) has returned
Returned(mode) == pc = "done" /\ markdown_only = mode

\* C1: for every nonempty run x of ordinary characters, encode("**x**", false)
\* is the Bold byte, x, the Bold byte, and nothing else.
C1_BoldSpan ==
    (Returned(FALSE) /\ IsSpan(<<"*", "*">>, <<"*", "*">>))
        => out = <<Modifier_Bold>> \o Inner(<<"*", "*">>, <<"*", "*">>)
                    \o <<Modifier_Bold>>

\* s is made of ordinary characters and backslash-delimiter pairs only
RECURSIVE EscapedOnly(_)
EscapedOnly(s) ==
    IF s = <<>> THEN TRUE
    ELSE IF Len(s) >= 2 /\ s[1] = Backslash /\ s[2] \in Delimiters
         THEN EscapedOnly(Drop(s, 2))
         ELSE Ordinary(<<s[1]>>) /\ EscapedOnly(Drop(s, 1))
\* s with every backslash-delimiter pair collapsed to the delimiter
RECURSIVE Collapsed(_)
Collapsed(s) ==
    IF s = <<>> THEN <<>>
    ELSE IF Len(s) >= 2 /\ s[1] = Backslash /\ s[2] \in Delimiters
         THEN <<s[2]>> \o Collapsed(Drop(s, 2))
         ELSE <<s[1]>> \o Collapsed(Drop(s, 1))

\* C2: when every reserved delimiter of the input is backslash-escaped,
\* encode(input, false) is the input with each backslash-delimiter pair
\* collapsed to the bare delimiter, and holds no modifier byte.
C2_EscapeRoundTrip ==
    (Returned(FALSE) /\ EscapedOnly(text))
        => out = Collapsed(text) /\ ModifiersIn(out) = {}

\* C3: encode("$c4,1hello$c", false) is the Color byte, 4, a comma, 1, hello
\* and a final Color byte.
C3_ColorDirective ==
    (Returned(FALSE)
        /\ text = <<"$", "c", "4", ",", "1", "h", "e", "l", "l", "o", "$", "c">>)
        => out = <<Modifier_Color, "4", ",", "1", "h", "e", "l", "l", "o",
                   Modifier_Color>>

\* C4: when $c is followed by text that is no colour (as in $cxyz),
\* encode(input, false) is one Color byte followed by that text unchanged.
C4_EndColor ==
    (Returned(FALSE) /\ Len(text) > 2 /\ Take(text, 2) = <<"$", "c">>
        /\ Ordinary(Drop(text, 2)) /\ ~color(Drop(text, 2)).ok)
        => out = <<Modifier_Color>> \o Drop(text, 2)

\* C5: for every nonempty run x of ordinary characters, encode("||x||", false)
\* is the Color byte, the black digits, a comma, the black digits, x and a
\* closing Color byte, and nothing else.
C5_Spoiler ==
    (Returned(FALSE) /\ IsSpan(<<"|", "|">>, <<"|", "|">>))
        => out = <<Modifier_Color>> \o Color_digit(1) \o <<",">>
                    \o Color_digit(1) \o Inner(<<"|", "|">>, <<"|", "|">>)
                    \o <<Modifier_Color>>

\* C6: encode(input, true) lexes no dollar sequence as a directive: no token
\* is a directive, an input without markdown span comes back unchanged and
\* without modifier byte, no Reset byte is ever emitted, and every $b, $i,
\* $m, $r and $c of the input is in the output as two literal characters.
C6_ModeSuppression ==
    Returned(TRUE) =>
        /\ \A k \in 1..Len(tokens) : tokens[k].kind \notin DollarKinds
        /\ (\A k \in 1..Len(tokens) : tokens[k].kind \notin MarkdownKinds)
              => (out = text /\ ModifiersIn(out) = {})
        /\ \A k \in 1..Len(out) : out[k] # Modifier_Reset
        /\ \A d \in {"b", "i", "m", "r", "c"} :
              Cardinality(Occurrences(<<"$", d>>, out))
                  >= Cardinality(Occurrences(<<"$", d>>, text))

\* encode(input, true) has returned for an input that holds $b next to a
\* markdown span
C6_Witness ==
    /\ Returned(TRUE)
    /\ Contains(<<"$", "b">>, text)
    /\ Contains(<<"$", "b">>, out)
    /\ ModifiersIn(out) # {}

\* C7: for every string s without reserved delimiter and without backslash,
\* encode(s, false) = s.
C7_PlainIdentity == (Returned(FALSE) /\ Ordinary(text)) => out = text

\* encode(s, false) has returned s for an ordinary s of several characters
C7_Witness ==
    Returned(FALSE) /\ Ordinary(text) /\ Len(text) >= 2 /\ out = text

\* what is left to do: decreases with every step and is never negative
Remaining ==
    2 * Len(input) + (Len(tokens) + 1 - next)
        + (CASE pc = "parse" -> 2 [] pc = "encode" -> 1 [] pc = "done" -> 0)

\* the guard of some action holds
CanStep ==
    \/ pc = "parse" /\ token(markdown_only, input).ok
    \/ pc = "parse" /\ ~token(markdown_only, input).ok
    \/ pc = "encode" /\ next <= Len(tokens)
    \/ pc = "encode" /\ next > Len(tokens)

\* C9: encode terminates for every input and both modes: a step is possible
\* until it has returned and every step decreases Remaining; every iteration
\* of the token loop consumes at least one character, so the loop makes at
\* most length(input) tokens.
C9_Totality ==
    /\ [][many0_token => Len(input') < Len(input)]_vars
    /\ [][Remaining' < Remaining]_vars
    /\ [](Remaining >= 0 /\ (pc # "done" => CanStep))
    /\ [](Len(tokens) + Len(input) <= Len(text))

\* encode has returned after the token loop ran several times
C9_Witness ==
    pc = "done" /\ parsed = "Some" /\ Len(tokens) >= 3 /\ Len(out) >= 3

\* text is ** t and t holds no closing **, no backslash and no $
UnterminatedBold ==
    /\ Len(text) >= 2
    /\ Take(text, 2) = <<"*", "*">>
    /\ ~Contains(<<"*", "*">>, Drop(text, 2))
    /\ \A k \in 3..Len(text) : text[k] \notin {Backslash, "$"}

\* C10 as claimed: for every input ** t where t holds no closing ** (no
\* backslash, no $), encode(input, m) in both modes is the input as typed
\* and holds no modifier byte.
C10_Original ==
    (pc = "done" /\ UnterminatedBold)
        => out = text /\ ModifiersIn(out) = {}

\* C10 as amended: for every input ** t where t holds no *, no _, no
\* backtick and no || (no backslash, no $), encode(input, m) in both modes
\* is the input as typed and holds no modifier byte.
C10_UnterminatedBold ==
    (pc = "done" /\ UnterminatedBold
        /\ (\A k \in 3..Len(text) : text[k] \notin {"*", "_", Backtick})
        /\ ~Contains(<<"|", "|">>, Drop(text, 2)))
        => out = text /\ ModifiersIn(out) = {}

\* encode(** t, true) has returned for a nonempty t the amended claim covers
C10_Witness ==
    /\ Returned(TRUE)
    /\ UnterminatedBold
    /\ Len(text) >= 4
    /\ \A k \in 3..Len(text) : text[k] \notin {"*", "_", Backtick}
    /\ ~Contains(<<"|", "|">>, Drop(text, 2))
    /\ out = text

\* the concatenation of the strings of ss
RECURSIVE Concat(_)
Concat(ss) == IF ss = <<>> THEN <<>> ELSE Head(ss) \o Concat(Tail(ss))
\* the length of the delimiter on each side of a span
DelimLen(kind) ==
    CASE kind = "ItalicBold" -> 3
      [] kind \in {"Bold", "Spoiler"} -> 2
      [] kind \in {"Italic", "Code"} -> 1
\* the slice s is what the token t was made from
SpanOf(t, s) ==
    CASE t.kind \in {"Plain", "Unknown"} -> t.text = s
      [] t.kind \in MarkdownKinds ->
            /\ Len(s) = Len(t.text) + 2 * DelimLen(t.kind)
            /\ SubSeq(s, DelimLen(t.kind) + 1, Len(s) - DelimLen(t.kind)) = t.text
      [] t.kind \in DollarKinds -> Len(s) >= 2 /\ Take(s, 2)[1] = "$"

\* C11: the slices the tokens of parse were made from, concatenated in token
\* order, are the input: together with what is not lexed yet they are the
\* input at every moment, each is the nonempty slice its token carries, and
\* they are the whole input once parse has returned its tokens.
C11_NonLossy ==
    /\ Concat(spans) \o input = text
    /\ \A k \in 1..Len(tokens) : spans[k] # <<>> /\ SpanOf(tokens[k], spans[k])
    /\ parsed = "Some" => Concat(spans) = text

\* parse has returned several tokens, a markdown span among them
C11_Witness ==
    /\ parsed = "Some"
    /\ Len(tokens) >= 3
    /\ \E k \in 1..Len(tokens) : tokens[k].kind \in MarkdownKinds
    /\ Concat(spans) = text

\* the state machine returns what the function returns
EncodeAgrees == pc = "done" => out = encode(text, markdown_only)

\* C12: for every input without $, encode(s, true) = encode(s, false).
C12_ModeEquivalence ==
    (pc = "done" /\ \A k \in 1..Len(text) : text[k] # "$")
        => out = encode(text, ~markdown_only)

\* the characters that end a plain run in the given mode
Stops(mode) == IF mode THEN Delimiters ELSE Reserved
\* s starts with an escape of the given mode
EscapeAt(s, mode) ==
    /\ Len(s) >= 2
    /\ \/ s[1] = Backslash /\ s[2] \in Stops(mode)
       \/ ~mode /\ s[1] = "$" /\ s[2] = "$"
\* s holds a character of Stops(mode) that is not part of an escape
RECURSIVE HasUnescaped(_, _)
HasUnescaped(s, mode) ==
    IF s = <<>> THEN FALSE
    ELSE IF EscapeAt(s, mode) THEN HasUnescaped(Drop(s, 2), mode)
    ELSE IF s[1] \in Stops(mode) THEN TRUE
    ELSE HasUnescaped(Drop(s, 1), mode)
\* the number of characters the first k tokens were made from
Consumed(k) == Len(Concat(SubSeq(spans, 1, k)))

\* C13: in both modes a Plain token holds no unescaped *, _, backtick or |,
\* and no unescaped $ when markdown_only is false; the run is maximal: it
\* ends at the end of the input or right before such a delimiter.
C13_PlainStops ==
    \A k \in 1..Len(tokens) :
        tokens[k].kind = "Plain" =>
            /\ ~HasUnescaped(spans[k], markdown_only)
            /\ \/ Consumed(k) = Len(text)
               \/ text[Consumed(k) + 1] \in Stops(markdown_only)

\* when text is start x end, parse returns the one span token of that kind
LexedAs(start, end, kind) ==
    (pc = "done" /\ IsSpan(start, end))
        => tokens = <<[kind |-> kind, text |-> Inner(start, end),
                       fg |-> NoColor, bg |-> NoColor]>>

\* C14: in both modes, for every nonempty run x of ordinary characters,
\* ***x***, ___x___, **_x_** and __*x*__ are lexed as the bold-italic span
\* with text x, **x** and __x__ as the bold span, *x* and _x_ as the italic
\* span.
C14_SpanPriority ==
    /\ LexedAs(<<"*", "*", "*">>, <<"*", "*", "*">>, "ItalicBold")
    /\ LexedAs(<<"_", "_", "_">>, <<"_", "_", "_">>, "ItalicBold")
    /\ LexedAs(<<"*", "*", "_">>, <<"_", "*", "*">>, "ItalicBold")
    /\ LexedAs(<<"_", "_", "*">>, <<"*", "_", "_">>, "ItalicBold")
    /\ LexedAs(<<"*", "*">>, <<"*", "*">>, "Bold")
    /\ LexedAs(<<"_", "_">>, <<"_", "_">>, "Bold")
    /\ LexedAs(<<"*">>, <<"*">>, "Italic")
    /\ LexedAs(<<"_">>, <<"_">>, "Italic")

\* the characters of the slice s between the delimiters of a span token t
InnerOf(t, s) == SubSeq(s, DelimLen(t.kind) + 1, Len(s) - DelimLen(t.kind))
NotModifier(c) == c \notin ModifierBytes

\* C15: the text a span token carries is the inner content with each
\* backslash-delimiter pair collapsed to the bare delimiter, and that is what
\* encode emits between the modifier bytes.
C15_SpanDeEscaped ==
    pc = "done" =>
        \A k \in 1..Len(tokens) :
            tokens[k].kind \in MarkdownKinds \ {"Spoiler"} =>
                /\ tokens[k].text = Collapsed(InnerOf(tokens[k], spans[k]))
                /\ SelectSeq(render(tokens[k]), NotModifier)
                       = Collapsed(InnerOf(tokens[k], spans[k]))

\* the modifier byte of the directive $d
DirectiveByte(d) ==
    CASE d = "b" -> Modifier_Bold
      [] d = "i" -> Modifier_Italics
      [] d = "m" -> Modifier_Monospace
      [] d = "r" -> Modifier_Reset

\* C16: with markdown_only = false, $b, $i, $m and $r followed by ordinary
\* text are replaced by exactly one modifier byte (Bold, Italics, Monospace,
\* Reset) and the two source characters are not in the output.
C16_Directives ==
    (Returned(FALSE) /\ Len(text) >= 2 /\ text[1] = "$"
        /\ text[2] \in {"b", "i", "m", "r"} /\ Ordinary(Drop(text, 2)))
        => /\ out = <<DirectiveByte(text[2])>> \o Drop(text, 2)
           /\ tokens[1].kind \in DollarKinds

\* text is $$ y or \$ y for a run y of ordinary characters
IsDollarEscape ==
    /\ Len(text) >= 2
    /\ text[1] \in {"$", Backslash}
    /\ text[2] = "$"
    /\ Ordinary(Drop(text, 2))

\* C17: with markdown_only = false, $$ and \$ collapse to one literal $ and
\* start no directive ($$b gives $b and no Bold byte); with markdown_only =
\* true they are passed through unchanged.
C17_DollarEscapes ==
    (pc = "done" /\ IsDollarEscape)
        => /\ ModifiersIn(out) = {}
           /\ out = IF markdown_only THEN text ELSE Drop(text, 1)

\* text is $c, then one or two digits that are no colour, then ordinary text
IsInvalidColor(t) ==
    /\ Len(t) >= 3
    /\ Take(t, 2) = <<"$", "c">>
    /\ IsDigit(t[3])
    /\ ~color_digit(Drop(t, 2)).ok
    /\ Ordinary(Drop(t, 2))

\* C18: with markdown_only = false, when $c is followed by digits that are no
\* palette colour, lexing succeeds, $c is the end-color directive (one Color
\* byte) and the digits are literal text; a directive later in the same
\* input is still encoded.
C18_InvalidColor ==
    /\ (Returned(FALSE) /\ IsInvalidColor(text))
          => (parsed = "Some" /\ out = <<Modifier_Color>> \o Drop(text, 2))
    /\ (Returned(FALSE) /\ Len(text) >= 5
          /\ IsInvalidColor(Take(text, Len(text) - 2))
          /\ Drop(text, Len(text) - 2) = <<"$", "c">>)
          => (parsed = "Some"
              /\ out = <<Modifier_Color>> \o SubSeq(text, 3, Len(text) - 2)
                          \o <<Modifier_Color>>)

\* C19: parse returns a token sequence, never None, for every input and
\* both modes: token succeeds wherever a character remains, the loop ends
\* only at end of input, and the fallback of encode is never taken.
C19_TotalCoverage ==
    /\ parsed # "None"
    /\ parse(text, markdown_only).ok
    /\ (pc = "parse" /\ input # <<>>) => token(markdown_only, input).ok
    /\ pc \in {"encode", "done"} => (parsed = "Some" /\ input = <<>>)

\* encode has returned for an input that needed the unknown rule
C19_Witness ==
    /\ pc = "done"
    /\ parsed = "Some"
    /\ Len(tokens) >= 2
    /\ \E k \in 1..Len(tokens) : tokens[k].kind = "Unknown"

\* Bold, Italics, x, Bold, Italics
BoldItalic(x) ==
    <<Modifier_Bold, Modifier_Italics>> \o x
        \o <<Modifier_Bold, Modifier_Italics>>

\* C20: for a bold-italic span with text x the encoder emits Bold byte,
\* Italics byte, x, Bold byte, Italics byte and nothing else.
C20_ItalicBold ==
    /\ [][(push /\ tokens[next].kind = "ItalicBold")
            => out' = out \o BoldItalic(tokens[next].text)]_vars
    /\ [](pc = "done" /\ Len(tokens) = 1 /\ tokens[1].kind = "ItalicBold"
            => out = BoldItalic(tokens[1].text))

\* encode has returned for an input with a bold-italic span inside
C20_Witness ==
    /\ pc = "done"
    /\ Len(tokens) >= 2
    /\ \E k \in 1..Len(tokens) :
          tokens[k].kind = "ItalicBold" /\ Len(tokens[k].text) >= 2
    /\ Cardinality(ModifiersIn(out)) = 4

\* the characters of s
Chars(s) == {s[k] : k \in 1..Len(s)}

\* C21: the encoder renders StartColor(fg, bg) as the Color byte, then the
\* digits of fg, then a comma and the digits of bg if and only if bg is
\* present (no comma without a background); EndColor is the Color byte
\* alone.
C21_StartColor ==
    (pc = "done" /\ parsed = "Some") =>
        /\ tokens[1].kind = "StartColor" =>
              /\ out = <<Modifier_Color>> \o Color_digit(tokens[1].fg)
                        \o (IF tokens[1].bg # NoColor
                            THEN <<",">> \o Color_digit(tokens[1].bg)
                            ELSE <<>>)
              /\ "," \in Chars(out) <=> tokens[1].bg # NoColor
        /\ tokens[1].kind = "EndColor" => out = <<Modifier_Color>>

\* $c4,1 was rendered as the Color byte, 4, a comma and 1
C21_Witness ==
    /\ pc = "done"
    /\ tokens = <<[kind |-> "StartColor", text |-> <<>>, fg |-> 4, bg |-> 1]>>
    /\ out = <<Modifier_Color, "4", ",", "1">>

\* the colour values among ColorWords, and what is not a colour value
ValidColorWords == ColorWords \ {<<>>, <<"1", "6">>, <<"9", "9">>}
InvalidColorWords == {<<>>, <<"1", "6">>, <<"9", "9">>}
\* the colour a colour value denotes
ColorOf(f) ==
    CASE f \in {<<"4">>, <<"0", "4">>, <<"r", "e", "d">>} -> 4
      [] f \in {<<"1">>, <<"b", "l", "a", "c", "k">>} -> 1
      [] f = <<"1", "5">> -> 15
      [] f = <<"l", "i", "g", "h", "t", "g", "r", "e", "e", "n">> -> 9

\* C22: when $c<fg> with a valid foreground is followed by a comma that is
\* not followed by a valid colour value, dollar does not consume the comma:
\* it returns StartColor(fg, no background) and the comma and what follows
\* remain in the input ($c4,hello: Color byte, 4, then ,hello).
C22_CommaKept ==
    \A f \in ValidColorWords, b \in InvalidColorWords,
       x \in Words \cup {<<>>}, e \in {<<>>, <<"$", "c">>} :
        (pc # "dollar" /\ text = <<"$", "c">> \o f \o <<",">> \o b \o x \o e) =>
            /\ parsed = "Some"
            /\ tokens = <<[kind |-> "StartColor", text |-> <<>>,
                           fg |-> ColorOf(f), bg |-> NoColor]>>
            /\ spans = << <<"$", "c">> \o f >>
            /\ input = <<",">> \o b \o x \o e
            /\ pc = "done" =>
                  out \o input = <<Modifier_Color>> \o Color_digit(ColorOf(f))
                                    \o <<",">> \o b \o x \o e

\* dollar was applied to $c4,hello and the directive was rendered
C22_Witness ==
    /\ pc = "done"
    /\ text = <<"$", "c", "4", ",", "h", "e", "l", "l", "o">>
    /\ out = <<Modifier_Color, "4">>
    /\ input = <<",", "h", "e", "l", "l", "o">>

\* position of a server name in key order
Rank(n) == CHOOSE k \in 1..Len(Servers) : Servers[k] = n
\* the entries of m for one server name, in the order entries() yields them
EntriesOf(m, name) ==
    LET Named(e) == e.server = name IN SelectSeq(entries(m), Named)
\* the bouncer networks of a sequence of entries
NetworksOf(es) == [k \in 1..Len(es) |-> es[k].bouncer_network]

\* entries() is grouped by server name in key order; each group is the one
\* primary entry of a name in the map followed by its bouncer networks
EntriesShape ==
    LET E == entries(map)
        P == primary_entries(map)
    IN  /\ \A i, j \in 1..Len(E) :
              i < j => Rank(E[i].server) <= Rank(E[j].server)
        /\ \A i \in 1..Len(E) :
              /\ E[i].server \in DOMAIN map
              /\ E[i].config = map[E[i].server].config
        /\ \A name \in ServerNames :
              IF contains(map, name)
              THEN /\ EntriesOf(map, name) # <<>>
                   /\ NetworksOf(EntriesOf(map, name))
                          = <<None>> \o map[name].children
                   /\ Cardinality({k \in 1..Len(P) : P[k].server = name}) = 1
              ELSE /\ EntriesOf(map, name) = <<>>
                   /\ \A k \in 1..Len(P) : P[k].server # name
        /\ \A k \in 1..Len(P) : P[k].bouncer_network = None

\* C23: after any sequence of insert, insert_bouncer_network and remove,
\* entries() yields for each server name in key order one primary entry
\* immediately followed by one entry per bouncer network attached to the
\* name, in attachment order; primary_entries() yields exactly one entry per
\* name for which contains() is true; insert_bouncer_network for a name not
\* in the map changes nothing.
C23_Entries ==
    /\ []EntriesShape
    /\ [][\A name \in ServerNames, net \in Networks :
            insert_bouncer_network(name, net) =>
                IF contains(map, name)
                THEN /\ EntriesOf(map', name)
                            = Append(EntriesOf(map, name),
                                     [server |-> name,
                                      config |-> map[name].config,
                                      bouncer_network |-> net])
                     /\ \A other \in ServerNames \ {name} :
                            EntriesOf(map', other) = EntriesOf(map, other)
                ELSE map' = map /\ entries(map') = entries(map)]_vars

\* two servers, net2 then net1 were attached to soju, and the last call was
\* insert_bouncer_network for a name not in the map
C23_Witness ==
    /\ call = Call("insert_bouncer_network", FALSE)
    /\ DOMAIN map = {"libera", "soju"}
    /\ map["soju"].children = <<"net2", "net1">>
    /\ NetworksOf(entries(map)) = <<None, None, "net2", "net1">>
    /\ Len(primary_entries(map)) = 2

\* C26: insert(name, config) for a name already present replaces its config
\* and discards every bouncer network attached to it (entries() then yields
\* only the primary entry for it); the entries of every other name are
\* unchanged.
C26_InsertReplaces ==
    [][\A name \in ServerNames, server \in Configs :
        (insert(name, server) /\ contains(map, name)) =>
            /\ map'[name].config = server
            /\ EntriesOf(map', name)
                   = <<[server |-> name, config |-> server,
                        bouncer_network |-> None]>>
            /\ \A other \in ServerNames \ {name} :
                   EntriesOf(map', other) = EntriesOf(map, other)]_vars

\* insert replaced a server of the map while another server had a network
C26_Witness ==
    /\ call = Call("insert", TRUE)
    /\ DOMAIN map = {"libera", "oftc"}
    /\ map["oftc"].children = <<>>
    /\ map["libera"].children # <<>>

\* how many of the given options are Some
CountSome(os) == Cardinality({k \in 1..Len(os) : is_some(os[k])})
NickSources(c) ==
    CountSome(<<c.nick_password, c.nick_password_file, c.nick_password_command>>)
PasswordSources(c) ==
    CountSome(<<c.password, c.password_file, c.password_command>>)
SaslSources(c) ==
    CountSome(<<c.sasl.password, c.sasl.password_file,
                c.sasl.password_command>>)
\* only the nick password of c can be a duplicate
OnlyNickError(c) ==
    /\ PasswordSources(c) <= 1
    /\ c.sasl.kind = "Plain" => SaslSources(c) = 1

\* C24: for a server that has nick_password_command configured and no other
\* nick-password source, read_passwords stores the output of the command in
\* the nick_password of that server and leaves its password unchanged.
C24_NickPasswordCommand ==
    [][\A env \in Envs :
        (read_passwords(env) /\ result' = "Ok") =>
            \A n \in DOMAIN map :
                (/\ is_some(map[n].config.nick_password_command)
                 /\ map[n].config.nick_password = None
                 /\ map[n].config.nick_password_file = None
                 /\ map[n].config.password_file = None
                 /\ map[n].config.password_command = None) =>
                    /\ map'[n].config.nick_password =
                           read_from_command(map[n].config.nick_password_command)
                    /\ map'[n].config.password = map[n].config.password]_vars

\* C25: when the reads and commands succeed and nothing else is a duplicate,
\* read_passwords returns DuplicateNickPassword exactly when some server has
\* more than one of nick_password, nick_password_file and
\* nick_password_command; a server password alone never causes it.
C25_DuplicateNickPassword ==
    [][(read_passwords([file |-> TRUE, command |-> TRUE])
            /\ \A n \in DOMAIN map : OnlyNickError(map[n].config)) =>
         (result' = "DuplicateNickPassword"
            <=> \E n \in DOMAIN map : NickSources(map[n].config) > 1)]_vars

\* C27: BouncerNetwork::parse takes each field from the attribute of the
\* same name: with name, host and a valid state in s it returns Some with
\* state equal to the parsed attribute state and tls derived from the
\* attribute tls (1: true, 0: false, otherwise none), with or without a port
\* attribute; it returns None only when name, host or a valid state is
\* missing.
C27_ParseFields ==
    network # <<>> =>
        IF /\ get(parameter_map(network_s), "name").some
           /\ get(parameter_map(network_s), "host").some
           /\ and_then_state(get(parameter_map(network_s), "state")).some
        THEN /\ network[1].some
             /\ network[1].v.id = network_id
             /\ network[1].v.name = get(parameter_map(network_s), "name").v
             /\ network[1].v.host = get(parameter_map(network_s), "host").v
             /\ network[1].v.state
                    = and_then_state(get(parameter_map(network_s), "state")).v
             /\ network[1].v.tls = tls_of(get(parameter_map(network_s), "tls"))
        ELSE ~network[1].some

\* the messages key_press itself has published
ByKeyPress == SelectSeq(shell, LAMBDA p : p.by = "key_press")
\* the event is a press of the configured key with the configured modifiers
Matches(event) ==
    /\ event.kind = "KeyPressed"
    /\ event.key = key
    /\ event.modifiers = modifiers

\* C28: for every event sequence, a KeyPressed event whose key and modifiers
\* both equal the configured ones publishes on_press exactly once, returns
\* Captured and is not forwarded to the inner widget; every other event
\* (also the key with other modifiers) is forwarded to the inner widget,
\* publishes nothing from the wrapper and returns the inner widget's status.
C28_KeyPress ==
    [][\A event \in Events, inner_status \in Statuses,
          inner_publish \in InnerPublishes :
        on_event(event, inner_status, inner_publish) =>
            IF Matches(event)
            THEN /\ shell' = Append(shell, [by |-> "key_press",
                                           message |-> on_press])
                 /\ status' = "Captured"
                 /\ inner_events' = inner_events
            ELSE /\ inner_events' = Append(inner_events, event)
                 /\ ByKeyPress' = ByKeyPress
                 /\ shell' = shell \o inner_publish
                 /\ status' = inner_status]_vars

\* the key with other modifiers went to the inner widget, then the key with
\* the configured modifiers was captured and published on_press once
C28_Witness ==
    /\ key = "Enter" /\ modifiers = {"CTRL"} /\ on_press = "Submit"
    /\ inner_events =
          <<[kind |-> "KeyPressed", key |-> "Enter", modifiers |-> {}]>>
    /\ shell = <<[by |-> "key_press", message |-> "Submit"]>>
    /\ status = "Captured"

\* C29 as stated: for every ReadMarker m, parsing m.to_string() with
\* ReadMarker::from_str yields Ok(m): the timestamp is neither shifted nor
\* loses precision.
C29_Original ==
    parsed_marker # <<>> => parsed_marker = <<[ok |-> TRUE, v |-> read_marker]>>

\* m with the part of its timestamp below one millisecond dropped
Millis(m) == [m EXCEPT !.nanos = m.nanos - (m.nanos % 1000000)]

\* C29 amended: parsing m.to_string() yields Ok of m truncated to whole
\* milliseconds, so Ok(m) for every ReadMarker m whose timestamp is a whole
\* number of milliseconds; the date and the time of day are never shifted.
C29_RoundTrip ==
    parsed_marker # <<>> =>
        /\ parsed_marker[1].ok
        /\ parsed_marker[1].v = Millis(read_marker)
        /\ read_marker.nanos % 1000000 = 0 => parsed_marker[1].v = read_marker

\* a marker at 12:34:56.123 on 1 February 1970 came back unchanged
C29_Witness ==
    /\ read_marker = [days |-> 31, secs |-> 45296, nanos |-> 123000000]
    /\ parsed_marker = <<[ok |-> TRUE, v |-> read_marker]>>

====
